---- MODULE Spec2Model ----
(***************************************************************************)
(* BigQuery Analysis MCP Server (src/src/index.ts).                        *)
(*                                                                         *)
(* Two parts:                                                              *)
(*   - containsDMLStatements, the statement classifier, a pure function    *)
(*     over query text.  Text is a sequence of one-character strings.      *)
(*     It is exercised by SpecClassify.                                    *)
(*   - the two tool handlers, dry_run_query and run_query_with_validation, *)
(*     as per-request state machines whose steps are the handler's         *)
(*     synchronous segments between awaits.  They are exercised by Spec.   *)
(***************************************************************************)
EXTENDS Integers, Sequences, FiniteSets, TLC

VARIABLES
    query,      \* SpecClassify: the text handed to containsDMLStatements
    dmlCheck,   \* SpecClassify: its return value, or NotRun
    req         \* Spec: request id -> the handler invocation's state

vars == <<query, dmlCheck, req>>

-----------------------------------------------------------------------------
(* Characters *)

LowerCase == <<"a","b","c","d","e","f","g","h","i","j","k","l","m","n","o","p","q","r","s","t","u","v","w","x","y","z">>
UpperCase == <<"A","B","C","D","E","F","G","H","I","J","K","L","M","N","O","P","Q","R","S","T","U","V","W","X","Y","Z">>
Digits == {"0","1","2","3","4","5","6","7","8","9"}

\* \w of a JavaScript regular expression without the u flag: [A-Za-z0-9_]
WordChars ==
    {LowerCase[k] : k \in 1..26} \cup {UpperCase[k] : k \in 1..26} \cup Digits \cup {"_"}

IsWordChar(c) == c \in WordChars

\* \s (the members that occur in the texts drawn here)
IsSpace(c) == c \in {" ", "\t", "\n", "\r"}

\* what "." does not match and what "$" stops before under the m flag
IsLineTerminator(c) == c \in {"\n", "\r"}

\* String.prototype.toUpperCase, one character
UpperOf == [c \in {LowerCase[k] : k \in 1..26} |->
               UpperCase[CHOOSE k \in 1..26 : c = LowerCase[k]]]

UpperChar(c) == IF c \in DOMAIN UpperOf THEN UpperOf[c] ELSE c

toUpperCase(s) == [i \in 1..Len(s) |-> UpperChar(s[i])]

\* String.prototype.toLowerCase (used only to draw lower-case inputs)
LowerOf == [c \in {UpperCase[k] : k \in 1..26} |->
               LowerCase[CHOOSE k \in 1..26 : c = UpperCase[k]]]

LowerChar(c) == IF c \in DOMAIN LowerOf THEN LowerOf[c] ELSE c

toLowerCase(s) == [i \in 1..Len(s) |-> LowerChar(s[i])]

\* String.prototype.trim
RECURSIVE TrimLeft(_)
TrimLeft(s) == IF s # <<>> /\ IsSpace(Head(s)) THEN TrimLeft(Tail(s)) ELSE s

RECURSIVE TrimRight(_)
TrimRight(s) ==
    IF s # <<>> /\ IsSpace(s[Len(s)]) THEN TrimRight(SubSeq(s, 1, Len(s) - 1)) ELSE s

trim(s) == TrimRight(TrimLeft(s))

-----------------------------------------------------------------------------
(* containsDMLStatements: normalization *)

\* the end of ".*$" started at i: the first line terminator at or after i,
\* or Len(s) + 1
RECURSIVE EndOfLine(_, _)
EndOfLine(s, i) ==
    IF i > Len(s) \/ IsLineTerminator(s[i]) THEN i ELSE EndOfLine(s, i + 1)

\* query.replace(/--.*$/gm, '')
RECURSIVE RemoveLineCommentsFrom(_, _)
RemoveLineCommentsFrom(s, i) ==
    IF i > Len(s) THEN <<>>
    ELSE IF i < Len(s) /\ s[i] = "-" /\ s[i + 1] = "-"
         THEN RemoveLineCommentsFrom(s, EndOfLine(s, i + 2))
         ELSE <<s[i]>> \o RemoveLineCommentsFrom(s, i + 1)

RemoveLineComments(s) == RemoveLineCommentsFrom(s, 1)

\* the position of the first "*/" at or after j, or 0: where the lazy
\* [\s\S]*? of the block comment pattern stops
RECURSIVE FindClose(_, _)
FindClose(s, j) ==
    IF j >= Len(s) THEN 0
    ELSE IF s[j] = "*" /\ s[j + 1] = "/" THEN j
    ELSE FindClose(s, j + 1)

\* .replace(/\/\*[\s\S]*?\*\//g, '')
RECURSIVE RemoveBlockCommentsFrom(_, _)
RemoveBlockCommentsFrom(s, i) ==
    IF i > Len(s) THEN <<>>
    ELSE IF i < Len(s) /\ s[i] = "/" /\ s[i + 1] = "*" /\ FindClose(s, i + 2) # 0
         THEN RemoveBlockCommentsFrom(s, FindClose(s, i + 2) + 2)
         ELSE <<s[i]>> \o RemoveBlockCommentsFrom(s, i + 1)

RemoveBlockComments(s) == RemoveBlockCommentsFrom(s, 1)

Normalize(q) == toUpperCase(trim(RemoveBlockComments(RemoveLineComments(q))))

-----------------------------------------------------------------------------
(* containsDMLStatements: the pattern catalog *)

KW == [CREATE |-> <<"C","R","E","A","T","E">>,
       OR |-> <<"O","R">>,
       REPLACE |-> <<"R","E","P","L","A","C","E">>,
       TABLE |-> <<"T","A","B","L","E">>,
       VIEW |-> <<"V","I","E","W">>,
       FUNCTION |-> <<"F","U","N","C","T","I","O","N">>,
       PROCEDURE |-> <<"P","R","O","C","E","D","U","R","E">>,
       DROP |-> <<"D","R","O","P">>,
       ALTER |-> <<"A","L","T","E","R">>,
       INSERT |-> <<"I","N","S","E","R","T">>,
       INTO |-> <<"I","N","T","O">>,
       UPDATE |-> <<"U","P","D","A","T","E">>,
       DELETE |-> <<"D","E","L","E","T","E">>,
       FROM |-> <<"F","R","O","M">>,
       MERGE |-> <<"M","E","R","G","E">>,
       TRUNCATE |-> <<"T","R","U","N","C","A","T","E">>,
       GRANT |-> <<"G","R","A","N","T">>,
       REVOKE |-> <<"R","E","V","O","K","E">>,
       BEGIN |-> <<"B","E","G","I","N">>,
       TRANSACTION |-> <<"T","R","A","N","S","A","C","T","I","O","N">>,
       COMMIT |-> <<"C","O","M","M","I","T">>,
       ROLLBACK |-> <<"R","O","L","L","B","A","C","K">>]

\* A pattern /\bW1\s+W2\s+...\s+Wn\b/i is the sequence <<W1, ..., Wn>>.
dmlPatterns == <<
    [pattern |-> <<KW.CREATE, KW.TABLE>>,                   name |-> "CREATE TABLE"],
    [pattern |-> <<KW.CREATE, KW.OR, KW.REPLACE, KW.TABLE>>, name |-> "CREATE OR REPLACE TABLE"],
    [pattern |-> <<KW.DROP, KW.TABLE>>,                     name |-> "DROP TABLE"],
    [pattern |-> <<KW.ALTER, KW.TABLE>>,                    name |-> "ALTER TABLE"],
    [pattern |-> <<KW.INSERT, KW.INTO>>,                    name |-> "INSERT INTO"],
    [pattern |-> <<KW.UPDATE>>,                             name |-> "UPDATE"],
    [pattern |-> <<KW.DELETE, KW.FROM>>,                    name |-> "DELETE FROM"],
    [pattern |-> <<KW.MERGE, KW.INTO>>,                     name |-> "MERGE INTO"],
    [pattern |-> <<KW.TRUNCATE, KW.TABLE>>,                 name |-> "TRUNCATE TABLE"],
    [pattern |-> <<KW.CREATE, KW.VIEW>>,                    name |-> "CREATE VIEW"],
    [pattern |-> <<KW.CREATE, KW.OR, KW.REPLACE, KW.VIEW>>,  name |-> "CREATE OR REPLACE VIEW"],
    [pattern |-> <<KW.DROP, KW.VIEW>>,                      name |-> "DROP VIEW"],
    [pattern |-> <<KW.CREATE, KW.FUNCTION>>,                name |-> "CREATE FUNCTION"],
    [pattern |-> <<KW.DROP, KW.FUNCTION>>,                  name |-> "DROP FUNCTION"],
    [pattern |-> <<KW.CREATE, KW.PROCEDURE>>,               name |-> "CREATE PROCEDURE"],
    [pattern |-> <<KW.DROP, KW.PROCEDURE>>,                 name |-> "DROP PROCEDURE"],
    [pattern |-> <<KW.GRANT>>,                              name |-> "GRANT"],
    [pattern |-> <<KW.REVOKE>>,                             name |-> "REVOKE"],
    [pattern |-> <<KW.BEGIN, KW.TRANSACTION>>,              name |-> "BEGIN TRANSACTION"],
    [pattern |-> <<KW.COMMIT>>,                             name |-> "COMMIT"],
    [pattern |-> <<KW.ROLLBACK>>,                           name |-> "ROLLBACK"] >>

-----------------------------------------------------------------------------
(* containsDMLStatements: matching *)

\* \b at the gap before position i of s (between s[i-1] and s[i])
WordBoundary(s, i) ==
    LET before == i > 1 /\ i - 1 <= Len(s) /\ IsWordChar(s[i - 1])
        after  == i >= 1 /\ i <= Len(s) /\ IsWordChar(s[i])
    IN  before # after

\* the literal word w occupies s[i .. i + Len(w) - 1]
WordAt(s, i, w) ==
    /\ i + Len(w) - 1 <= Len(s)
    /\ \A k \in 1..Len(w) : s[i + k - 1] = w[k]

\* the first position at or after i that holds no white space
RECURSIVE SkipSpace(_, _)
SkipSpace(s, i) ==
    IF i <= Len(s) /\ IsSpace(s[i]) THEN SkipSpace(s, i + 1) ELSE i

\* The words pattern[k..] matched at position i with \s+ between them and
\* \b after the last: the position after the match, or 0 when there is none.
\* (\s+ is greedy and the next word starts with a non-space, so taking all
\* the white space loses no match.)
RECURSIVE MatchWords(_, _, _, _)
MatchWords(s, i, pattern, k) ==
    IF ~WordAt(s, i, pattern[k]) THEN 0
    ELSE LET j == i + Len(pattern[k])
         IN  IF k = Len(pattern)
             THEN IF WordBoundary(s, j) THEN j ELSE 0
             ELSE IF j <= Len(s) /\ IsSpace(s[j])
                  THEN MatchWords(s, SkipSpace(s, j), pattern, k + 1)
                  ELSE 0

\* the position after a match of the pattern that starts at i, or 0
MatchAt(s, i, pattern) ==
    IF WordBoundary(s, i) THEN MatchWords(s, i, pattern, 1) ELSE 0

\* pattern.test(s)
Test(pattern, s) == \E i \in 1..Len(s) : MatchAt(s, i, pattern) # 0

\* a message that does not say which construct
DMLMessage_Unnamed(name) ==
    <<"DML statement detected", "", ". Only SELECT queries are allowed.">>

\* `DML statement detected: ${name}. Only SELECT queries are allowed.`, kept
\* as the template's three parts
DMLMessage(name) ==
    <<"DML statement detected: ", name, ". Only SELECT queries are allowed.">>

\* a loop that reports the signature matching earliest in the text
FirstMatch_EarliestInText(normalizedQuery, k) ==
    LET matches == { n \in k..Len(dmlPatterns) :
                        Test(dmlPatterns[n].pattern, normalizedQuery) }
        pos(n) == CHOOSE i \in 1..Len(normalizedQuery) :
                    /\ MatchAt(normalizedQuery, i, dmlPatterns[n].pattern) # 0
                    /\ \A j \in 1..(i - 1) :
                          MatchAt(normalizedQuery, j, dmlPatterns[n].pattern) = 0
    IN  IF matches = {} THEN [isDML |-> FALSE]
        ELSE LET best == CHOOSE n \in matches :
                            \A m \in matches :
                                pos(n) < pos(m) \/ (pos(n) = pos(m) /\ n <= m)
             IN  [isDML |-> TRUE, message |-> DMLMessage(dmlPatterns[best].name)]

\* the for loop over dmlPatterns, from entry k on
RECURSIVE FirstMatch(_, _)
FirstMatch(normalizedQuery, k) ==
    IF k > Len(dmlPatterns) THEN [isDML |-> FALSE]
    ELSE IF Test(dmlPatterns[k].pattern, normalizedQuery)
         THEN [isDML |-> TRUE, message |-> DMLMessage(dmlPatterns[k].name)]
         ELSE FirstMatch(normalizedQuery, k + 1)

containsDMLStatements(q) == FirstMatch(Normalize(q), 1)

-----------------------------------------------------------------------------------------------------------------------------------------------------------------------------------------------------------------------------
(* Byte counts.  A BigInt is the sequence of its decimal digits, most      *)
(* significant first, without leading zeros (0n is the empty sequence).    *)
(* The dry-run facility's byte count is a natural number, written as its   *)
(* groups of three decimal digits (<<1, 99, 511>> is 1,099,511), which the *)
(* service reports as a decimal string.                                    *)

\* const SIZE_LIMIT_BYTES = 1_099_511_627_776
SIZE_LIMIT_BYTES == <<1, 99, 511, 627, 776>>

DigitChars == <<"0","1","2","3","4","5","6","7","8","9">>

RECURSIVE StripLeadingZeros(_)
StripLeadingZeros(ds) ==
    IF ds # <<>> /\ Head(ds) = 0 THEN StripLeadingZeros(Tail(ds)) ELSE ds

RECURSIVE GroupDigits(_)
GroupDigits(n) ==
    IF n = <<>> THEN <<>>
    ELSE <<Head(n) \div 100, (Head(n) \div 10) % 10, Head(n) % 10>> \o GroupDigits(Tail(n))

\* BigInt(n) of a Number that is a safe integer
NumberToBigInt(n) == StripLeadingZeros(GroupDigits(n))

\* the int64 statistic as the REST API serializes it: a decimal string
DecimalString(n) ==
    LET ds == NumberToBigInt(n)
    IN  IF ds = <<>> THEN <<"0">> ELSE [i \in 1..Len(ds) |-> DigitChars[ds[i] + 1]]

Undefined == [type |-> "undefined"]
Str(chars) == [type |-> "string", value |-> chars]

\* a conversion that takes whatever it cannot convert for zero
BigInt_Lenient(v) ==
    IF v.type = "string" /\ v.value # <<>> /\ \A i \in 1..Len(v.value) : v.value[i] \in Digits
    THEN [ok |-> TRUE,
          value |-> StripLeadingZeros(
              [i \in 1..Len(v.value) |->
                  (CHOOSE d \in 1..10 : DigitChars[d] = v.value[i]) - 1])]
    ELSE [ok |-> TRUE, value |-> <<0>>]

\* BigInt(v): a string of decimal digits (white space trimmed, empty is 0n)
\* converts; undefined throws a TypeError, any other string a SyntaxError
BigInt(v) ==
    IF v.type = "undefined"
    THEN [ok |-> FALSE,
          error |-> [isError |-> TRUE, message |-> "Cannot convert undefined to a BigInt"]]
    ELSE LET t == trim(v.value)
         IN  IF \A i \in 1..Len(t) : t[i] \in Digits
             THEN [ok |-> TRUE,
                   value |-> StripLeadingZeros(
                       [i \in 1..Len(t) |-> (CHOOSE d \in 1..10 : DigitChars[d] = t[i]) - 1])]
             ELSE [ok |-> FALSE,
                   error |-> [isError |-> TRUE, message |-> "Cannot convert string to a BigInt"]]

\* a < b on BigInts
BigIntLess(a, b) ==
    \/ Len(a) < Len(b)
    \/ /\ Len(a) = Len(b)
       /\ \E i \in 1..Len(a) : a[i] < b[i] /\ \A j \in 1..(i - 1) : a[j] = b[j]

\* a string comparison of the two decimal numerals instead
IsBelowLimit_Lexicographic(b) ==
    LET l == NumberToBigInt(SIZE_LIMIT_BYTES)
    IN  \/ \E i \in 1..Len(b) : /\ i <= Len(l)
                                /\ b[i] < l[i]
                                /\ \A j \in 1..(i - 1) : b[j] = l[j]
        \/ Len(b) < Len(l) /\ \A j \in 1..Len(b) : b[j] = l[j]

\* <= instead of <
IsBelowLimit_OrEqual(b) == ~BigIntLess(NumberToBigInt(SIZE_LIMIT_BYTES), b)

\* BigInt(totalBytesProcessed) < BigInt(SIZE_LIMIT_BYTES), given the left side
IsBelowLimit(b) == BigIntLess(b, NumberToBigInt(SIZE_LIMIT_BYTES))

-----------------------------------------------------------------------------
(* The tool handlers *)

Requests == {"r1", "r2"}

Idle == [pc |-> "idle"]

\* the tool arguments a caller may send
HandlerQueries == {
    <<>>,
    <<"S","E","L","E","C","T"," ","x">>,
    <<"I","N","S","E","R","T"," ","I","N","T","O"," ","t">>,
    <<"/","*","-","-","*","/","D","R","O","P"," ","T","A","B","L","E"," ","t">> }

ProjectIds == {Undefined, Str(<<>>), Str(<<"m","y","-","p","r","o","j","e","c","t">>)}

MaxResultsArgs == {Undefined, [type |-> "number", value |-> 5]}

\* what the external service may answer
ByteCounts == {
    <<0>>, <<200>>, <<1, 73, 741, 824>>,
    <<1, 99, 511, 627, 775>>, <<1, 99, 511, 627, 776>>, <<1, 99, 511, 627, 777>>,
    <<2, 0, 0, 0, 0>>, <<10, 0, 0, 0, 0>>, <<9, 7, 199, 254, 740, 993>> }

NoEstimate == <<-1>>

\* the [job] createQueryJob resolves with; estimate is the number behind the
\* reported string
Jobs ==
    { [estimate |-> n, totalBytesProcessed |-> Str(DecimalString(n))] : n \in ByteCounts }
    \cup { [estimate |-> NoEstimate, totalBytesProcessed |-> Undefined],
           [estimate |-> NoEstimate, totalBytesProcessed |-> Str(<<"n","/","a">>)] }

\* what a facility may reject with: Error objects, and a value that is none
\* (a bare string)
Rejections == {
    [isError |-> TRUE, message |-> "Invalid query syntax"],
    [isError |-> TRUE, message |-> "Quota exceeded"],
    [isError |-> FALSE, value |-> "socket hang up"] }

MaxRows == 2

RowSets == { [i \in 1..n |-> [id |-> i]] : n \in 0..MaxRows }

\* maxResults = 100
DefaultMaxResults == 100

\* !query
IsMissing_Never(q) == FALSE

IsMissing(q) == q = <<>>

\* ...(projectId && { projectId })
ProjectOption(projectId) ==
    IF projectId.type = "string" /\ projectId.value # <<>> THEN projectId ELSE Undefined

\* error instanceof Error ? error.message : String(error)
ErrorText_Generic(error) == "Query failed"

ErrorText(error) == IF error.isError THEN error.message ELSE error.value

InvalidParams == [code |-> "InvalidParams", message |-> "Query is required"]

Failure(error) == [success |-> FALSE, error |-> ErrorText(error)]

\* the first segment of either handler throws
Throw(r, tool, q) ==
    req' = [req EXCEPT ![r] =
        [pc |-> "thrown", tool |-> tool, query |-> q, classified |-> FALSE,
         calls |-> <<>>, thrown |-> InvalidParams]]

\* bigquery.createQueryJob({query, dryRun: true, projectId?})
DryRunCall(q, projectId) ==
    [api |-> "createQueryJob",
     options |-> [query |-> q, dryRun |-> TRUE, projectId |-> ProjectOption(projectId)]]

\* a call that sends the text the classifier scanned
QueryCall_Normalized(q, projectId, maxResults) ==
    [api |-> "query",
     options |-> [query |-> Normalize(q), projectId |-> ProjectOption(projectId),
                  maxResults |-> maxResults]]

\* bigquery.query({query, projectId?, maxResults})
QueryCall(q, projectId, maxResults) ==
    [api |-> "query",
     options |-> [query |-> q, projectId |-> ProjectOption(projectId),
                  maxResults |-> maxResults]]

\* dry_run_query up to its await
dry_run_query(r) ==
    /\ req[r].pc = "idle"
    /\ \E q \in HandlerQueries, projectId \in ProjectIds :
         IF IsMissing(q)
         THEN Throw(r, "dry_run_query", q)
         ELSE req' = [req EXCEPT ![r] =
                [pc |-> "awaitDryRun", tool |-> "dry_run_query", query |-> q,
                 projectId |-> projectId, classified |-> FALSE,
                 calls |-> <<DryRunCall(q, projectId)>>]]
    /\ UNCHANGED <<query, dmlCheck>>

\* a report that fails, as run_query_with_validation does, over the limit
DryRunReport_RejectsOverLimit(totalBytesProcessed, b) ==
    IF IsBelowLimit(b)
    THEN [success |-> TRUE, bytesProcessed |-> totalBytesProcessed, isBelowLimit |-> TRUE]
    ELSE [success |-> FALSE, bytesProcessed |-> totalBytesProcessed,
          error |-> <<"Query would process ", "sizeInGB.toFixed(2)",
                      " GB, which exceeds the 1 TB limit.">>]

\* the payload dry_run_query returns after a dry run (formattedSize and
\* message, display strings derived from the same values, are left out)
DryRunReport(totalBytesProcessed, b) ==
    [success |-> TRUE,
     bytesProcessed |-> totalBytesProcessed,
     isBelowLimit |-> IsBelowLimit(b)]

\* dry_run_query from the await of createQueryJob, resolved, to its return
dry_run_query_resolved(r) ==
    /\ req[r].pc = "awaitDryRun"
    /\ req[r].tool = "dry_run_query"
    /\ \E job \in Jobs :
         LET totalBytesProcessed == job.totalBytesProcessed
             b == BigInt(totalBytesProcessed)
         IN  req' = [req EXCEPT ![r] =
                [pc |-> "returned", job |-> job,
                 payload |->
                    IF b.ok
                    THEN DryRunReport(totalBytesProcessed, b.value)
                    ELSE Failure(b.error)] @@ req[r]]
    /\ UNCHANGED <<query, dmlCheck>>

\* a catch that issues the failed call once more before giving up
rejected_Retrying(r) ==
    /\ req[r].pc \in {"awaitDryRun", "awaitQuery"}
    /\ \E error \in Rejections :
         IF "rejection" \in DOMAIN req[r]
         THEN req' = [req EXCEPT ![r] =
                [pc |-> "returned", payload |-> Failure(error)] @@ req[r]]
         ELSE req' = [req EXCEPT ![r] =
                [rejection |-> error,
                 calls |-> Append(req[r].calls, req[r].calls[Len(req[r].calls)])]
                @@ req[r]]
    /\ UNCHANGED <<query, dmlCheck>>

\* a catch that throws the error on instead of returning a failure payload
rejected_Rethrows(r) ==
    /\ req[r].pc \in {"awaitDryRun", "awaitQuery"}
    /\ \E error \in Rejections :
         req' = [req EXCEPT ![r] =
            [pc |-> "thrown", rejection |-> error, thrown |-> error] @@ req[r]]
    /\ UNCHANGED <<query, dmlCheck>>

\* either handler from an await that rejects, through its catch, to its return
rejected(r) ==
    /\ req[r].pc \in {"awaitDryRun", "awaitQuery"}
    /\ \E error \in Rejections :
         req' = [req EXCEPT ![r] =
            [pc |-> "returned", rejection |-> error, payload |-> Failure(error)] @@ req[r]]
    /\ UNCHANGED <<query, dmlCheck>>

\* a handler that starts the query together with the dry run, without
\* waiting for the estimate
run_query_with_validation_Speculative(r) ==
    /\ req[r].pc = "idle"
    /\ \E q \in HandlerQueries \ {<<>>}, projectId \in ProjectIds :
         LET maxResults == [type |-> "number", value |-> DefaultMaxResults]
         IN  req' = [req EXCEPT ![r] =
                [pc |-> "awaitDryRun", tool |-> "run_query_with_validation",
                 query |-> q, projectId |-> projectId, maxResults |-> maxResults,
                 classified |-> TRUE, dmlCheck |-> containsDMLStatements(q),
                 calls |-> <<DryRunCall(q, projectId),
                             QueryCall(q, projectId, maxResults)>>]]
    /\ UNCHANGED <<query, dmlCheck>>

\* run_query_with_validation up to its first await, or to its return
run_query_with_validation(r) ==
    /\ req[r].pc = "idle"
    /\ \E q \in HandlerQueries, projectId \in ProjectIds, maxResultsArg \in MaxResultsArgs :
         IF IsMissing(q)
         THEN Throw(r, "run_query_with_validation", q)
         ELSE LET check == containsDMLStatements(q)
                  maxResults == IF maxResultsArg = Undefined
                                THEN [type |-> "number", value |-> DefaultMaxResults]
                                ELSE maxResultsArg
                  started == [tool |-> "run_query_with_validation", query |-> q,
                              projectId |-> projectId,
                              maxResultsArg |-> maxResultsArg, maxResults |-> maxResults,
                              classified |-> TRUE, dmlCheck |-> check]
              IN  IF check.isDML
                  THEN req' = [req EXCEPT ![r] =
                         [pc |-> "returned", calls |-> <<>>,
                          payload |-> [success |-> FALSE, error |-> check.message]]
                         @@ started]
                  ELSE req' = [req EXCEPT ![r] =
                         [pc |-> "awaitDryRun", calls |-> <<DryRunCall(q, projectId)>>]
                         @@ started]
    /\ UNCHANGED <<query, dmlCheck>>

SizeExceeded ==
    <<"Query would process ", "sizeInGB.toFixed(2)", " GB, which exceeds the 1 TB limit.">>

\* run_query_with_validation from the await of createQueryJob, resolved, to
\* its second await or to its return
run_query_dry_run_resolved(r) ==
    /\ req[r].pc = "awaitDryRun"
    /\ req[r].tool = "run_query_with_validation"
    /\ \E job \in Jobs :
         LET totalBytesProcessed == job.totalBytesProcessed
             b == BigInt(totalBytesProcessed)
         IN  IF ~b.ok
             THEN req' = [req EXCEPT ![r] =
                    [pc |-> "returned", job |-> job, payload |-> Failure(b.error)] @@ req[r]]
             ELSE IF ~IsBelowLimit(b.value)
             THEN req' = [req EXCEPT ![r] =
                    [pc |-> "returned", job |-> job, isBelowLimit |-> FALSE,
                     payload |-> [success |-> FALSE,
                                  bytesProcessed |-> totalBytesProcessed,
                                  error |-> SizeExceeded]] @@ req[r]]
             ELSE req' = [req EXCEPT ![r] =
                    [pc |-> "awaitQuery", job |-> job, isBelowLimit |-> TRUE,
                     calls |-> Append(req[r].calls,
                                 QueryCall(req[r].query, req[r].projectId, req[r].maxResults))]
                    @@ req[r]]
    /\ UNCHANGED <<query, dmlCheck>>

\* a payload whose results are in another order than the rows came in
Executed_Reordered(totalBytesProcessed, rows) ==
    [success |-> TRUE,
     bytesProcessed |-> totalBytesProcessed,
     rowCount |-> Len(rows),
     results |-> [i \in 1..Len(rows) |-> rows[Len(rows) + 1 - i]]]

\* the payload run_query_with_validation returns after the query ran
\* (formattedSize, a display string, is left out)
Executed(totalBytesProcessed, rows) ==
    [success |-> TRUE,
     bytesProcessed |-> totalBytesProcessed,
     rowCount |-> Len(rows),
     results |-> rows]

\* a handler that keeps the dry run's byte count in a variable of the module,
\* which any request's dry run overwrites
run_query_resolved_SharedBytes(r) ==
    /\ req[r].pc = "awaitQuery"
    /\ \E rows \in RowSets, o \in Requests :
         /\ "job" \in DOMAIN req[o]
         /\ req' = [req EXCEPT ![r] =
               [pc |-> "returned", rows |-> rows,
                payload |-> Executed(req[o].job.totalBytesProcessed, rows)] @@ req[r]]
    /\ UNCHANGED <<query, dmlCheck>>

\* run_query_with_validation from the await of bigquery.query, resolved, to
\* its return
run_query_resolved(r) ==
    /\ req[r].pc = "awaitQuery"
    /\ \E rows \in RowSets :
         req' = [req EXCEPT ![r] =
            [pc |-> "returned", rows |-> rows,
             payload |-> Executed(req[r].job.totalBytesProcessed, rows)] @@ req[r]]
    /\ UNCHANGED <<query, dmlCheck>>

Init ==
    /\ req = [r \in Requests |-> Idle]
    /\ query = <<>>
    /\ dmlCheck = [isDML |-> FALSE, message |-> <<"not run">>]

Next ==
    \E r \in Requests :
        \/ dry_run_query(r)
        \/ dry_run_query_resolved(r)
        \/ run_query_with_validation(r)
        \/ run_query_dry_run_resolved(r)
        \/ run_query_resolved(r)
        \/ rejected(r)

Spec == Init /\ [][Next]_vars

\* the continuation of request r after an await: the awaited call settles
Settles(r) ==
    \/ dry_run_query_resolved(r)
    \/ run_query_dry_run_resolved(r)
    \/ run_query_resolved(r)
    \/ rejected(r)

\* The callers of SpecLive send neither projectId nor maxResults, arguments
\* on which no branch of a handler depends.
LiveInputs ==
    \A r \in Requests :
        /\ "projectId" \in DOMAIN req[r] => req[r].projectId = Undefined
        /\ "maxResultsArg" \in DOMAIN req[r] => req[r].maxResultsArg = Undefined

NextLive ==
    \E r \in Requests :
        \/ dry_run_query(r) /\ LiveInputs'
        \/ dry_run_query_resolved(r)
        \/ run_query_with_validation(r) /\ LiveInputs'
        \/ run_query_dry_run_resolved(r)
        \/ run_query_resolved(r)
        \/ rejected(r)

\* Every external call a request awaits eventually resolves or rejects.
SpecLive ==
    Init /\ [][NextLive]_vars /\ \A r \in Requests : WF_vars(Settles(r))

-----
(* SpecClassify: containsDMLStatements applied to drawn query texts *)

MaxPieces == 4

\* Query texts are drawn as concatenations of up to MaxPieces of these.
Pieces == <<
    <<"D","R","O","P"," ","T","A","B","L","E">>,
    <<"/","*">>,
    <<"*","/">>,
    <<"-","-">>,
    <<"\n">>,
    <<" ">>,
    <<"u","p">>,
    <<"d","a","t","e">>,
    <<"d","_","a","t">> >>

RECURSIVE Concat(_)
Concat(ps) == IF ps = <<>> THEN <<>> ELSE Pieces[Head(ps)] \o Concat(Tail(ps))

PieceQueries ==
    { Concat(ps) : ps \in UNION { [1..n -> 1..Len(Pieces)] : n \in 0..MaxPieces } }

\* Query texts that are one statement: its leading keywords, joined by sep,
\* in upper or lower case, with or without an operand.
ObjectKinds == {KW.TABLE, KW.VIEW, KW.FUNCTION, KW.PROCEDURE}

StatementHeads ==
    { <<KW.CREATE, o>> : o \in ObjectKinds }
    \cup { <<KW.CREATE, KW.OR, KW.REPLACE, o>> : o \in ObjectKinds }
    \cup { <<KW.DROP, o>> : o \in ObjectKinds }
    \cup { <<KW.ALTER, o>> : o \in ObjectKinds }
    \cup { <<KW.INSERT, KW.INTO>>, <<KW.UPDATE>>, <<KW.DELETE, KW.FROM>>,
           <<KW.MERGE, KW.INTO>>, <<KW.TRUNCATE, KW.TABLE>>, <<KW.GRANT>>,
           <<KW.REVOKE>>, <<KW.BEGIN, KW.TRANSACTION>>, <<KW.COMMIT>>,
           <<KW.ROLLBACK>> }

RECURSIVE Join(_, _)
Join(words, sep) ==
    IF Len(words) = 1 THEN Head(words)
    ELSE Head(words) \o sep \o Join(Tail(words), sep)

StatementQueries ==
    { IF lower THEN toLowerCase(Join(h, sep) \o operand) ELSE Join(h, sep) \o operand :
        h \in StatementHeads,
        sep \in { <<" ">>, <<"\n">>, <<" ", "\t">> },
        operand \in { <<>>, <<" ", "t">> },
        lower \in BOOLEAN }

NotRun == [isDML |-> FALSE, message |-> <<"not run">>]

InitClassify ==
    /\ query \in PieceQueries \cup StatementQueries
    /\ dmlCheck = NotRun
    /\ req = [r \in Requests |-> Idle]

Classify ==
    /\ dmlCheck = NotRun
    /\ dmlCheck' = containsDMLStatements(query)
    /\ UNCHANGED <<query, req>>

NextClassify == Classify

SpecClassify == InitClassify /\ [][NextClassify]_vars

Classified == dmlCheck # NotRun

-----------------------------------------------------------------------------
(* The lexical structure of SQL comments, against which the classifier is  *)
(* judged: scanning left to right, "--" outside a comment opens a comment  *)
(* that runs to the end of the line, and a slash-star outside a comment    *)
(* opens one that runs to the next star-slash.                             *)

\* the positions at or after i that lie in a comment, i being outside one
RECURSIVE SqlCommentPositions(_, _)
SqlCommentPositions(s, i) ==
    IF i > Len(s) THEN {}
    ELSE IF i < Len(s) /\ s[i] = "-" /\ s[i + 1] = "-"
         THEN (i..(EndOfLine(s, i + 2) - 1))
                  \cup SqlCommentPositions(s, EndOfLine(s, i + 2))
    ELSE IF i < Len(s) /\ s[i] = "/" /\ s[i + 1] = "*"
         THEN LET c == FindClose(s, i + 2)
                  e == IF c = 0 THEN Len(s) ELSE c + 1
              IN  (i..e) \cup SqlCommentPositions(s, e + 1)
    ELSE SqlCommentPositions(s, i + 1)

InComment(q) == SqlCommentPositions(q, 1)

\* every block comment that opens is closed (an unclosed one is a syntax error)
RECURSIVE CommentsClosed(_, _)
CommentsClosed(s, i) ==
    IF i > Len(s) THEN TRUE
    ELSE IF i < Len(s) /\ s[i] = "-" /\ s[i + 1] = "-"
         THEN CommentsClosed(s, EndOfLine(s, i + 2))
    ELSE IF i < Len(s) /\ s[i] = "/" /\ s[i + 1] = "*"
         THEN FindClose(s, i + 2) # 0 /\ CommentsClosed(s, FindClose(s, i + 2) + 2)
    ELSE CommentsClosed(s, i + 1)

WellFormed(q) == CommentsClosed(q, 1)

\* the spans [i, e) of the query text, as written, that are whole-word
\* case-insensitive occurrences of the construct
Occurrences(q, pattern) ==
    { <<i, MatchAt(toUpperCase(q), i, pattern)>> :
        i \in { j \in 1..Len(q) : MatchAt(toUpperCase(q), j, pattern) # 0 } }

OccursOutsideComments(q, pattern) ==
    \E o \in Occurrences(q, pattern) : (o[1]..(o[2] - 1)) \cap InComment(q) = {}

OccursInsideComments(q, pattern) ==
    \E o \in Occurrences(q, pattern) : (o[1]..(o[2] - 1)) \subseteq InComment(q)

\* the constructs the property names (the catalog without its two
\* CREATE OR REPLACE entries)
NamedConstructs ==
    { k \in 1..Len(dmlPatterns) :
        dmlPatterns[k].name \notin {"CREATE OR REPLACE TABLE", "CREATE OR REPLACE VIEW"} }

\* C7: a query in which one of the named constructs occurs as whole words
\* outside every comment is classified isDML = TRUE, with a message that
\* names a construct occurring there, wherever its comments are placed.
C7_DetectsOutsideComments ==
    (Classified /\ WellFormed(query)) =>
        LET outside == { k \in NamedConstructs :
                           OccursOutsideComments(query, dmlPatterns[k].pattern) }
        IN  outside # {} =>
              /\ dmlCheck.isDML
              /\ Len(dmlCheck.message) = 3
              /\ dmlCheck.message[2] \in { dmlPatterns[k].name : k \in outside }

\* C8: a query whose mutating constructs all lie inside comments is
\* classified isDML = FALSE with no message, for every nesting of the two
\* comment forms.
C8_IgnoresInsideComments ==
    (Classified /\ WellFormed(query)) =>
        LET all == 1..Len(dmlPatterns)
        IN  (/\ \E k \in all : OccursInsideComments(query, dmlPatterns[k].pattern)
             /\ \A k \in all : \A o \in Occurrences(query, dmlPatterns[k].pattern) :
                    (o[1]..(o[2] - 1)) \subseteq InComment(query))
            => dmlCheck = [isDML |-> FALSE]

\* the catalog's keywords
CatalogWords == { KW[f] : f \in DOMAIN KW }

\* every occurrence of a catalog keyword in the text has a word character
\* next to it: it is part of a longer identifier
OnlyInsideIdentifiers(q) ==
    LET u == toUpperCase(q)
    IN  \A w \in CatalogWords : \A i \in 1..Len(u) :
            WordAt(u, i, w) => ~(WordBoundary(u, i) /\ WordBoundary(u, i + Len(w)))

\* C9: a query whose only occurrences of catalog keywords are parts of
\* longer identifiers is classified isDML = FALSE.
C9_NoMatchInsideIdentifiers ==
    (Classified /\ WellFormed(query) /\ OnlyInsideIdentifiers(query))
        => ~dmlCheck.isDML

\* C10: every query that is one statement creating (or replacing),
\* dropping or altering a table, view, function or procedure, or an insert,
\* update, delete, merge, truncate, grant, revoke, begin, commit or rollback,
\* is classified isDML = TRUE.
C10_CatalogCoverage ==
    (Classified /\ query \in StatementQueries) => dmlCheck.isDML

-----------------------------------------------------------------------------
(* Properties of the handlers *)

Started(r) == req[r].pc # "idle"

IsRun(r) == Started(r) /\ req[r].tool = "run_query_with_validation"

IsDryRun(r) == Started(r) /\ req[r].tool = "dry_run_query"

\* how many times request r invoked the facility
CallCount(r, api) == Cardinality({ i \in 1..Len(req[r].calls) : req[r].calls[i].api = api })

\* 1,099,511,627,776 in groups of three digits
OneTB == <<1, 99, 511, 627, 776>>

\* m < n on naturals written in groups of three digits
NatLess(m, n) ==
    \/ Len(m) < Len(n)
    \/ /\ Len(m) = Len(n)
       /\ \E i \in 1..Len(m) : m[i] < n[i] /\ \A j \in 1..(i - 1) : m[j] = n[j]

\* the dry run of request r succeeded and reported a byte count
HasEstimate(r) == Started(r) /\ "job" \in DOMAIN req[r] /\ req[r].job.estimate # NoEstimate

\* request r called containsDMLStatements, which reported a mutating query
ReportedMutating(r) == Started(r) /\ req[r].classified /\ req[r].dmlCheck.isDML

\* C1: run_query_with_validation, on a non-empty query, never invokes
\* bigquery.query when the classifier reports the query as mutating, nor
\* when the dry-run estimate is at or above 1,099,511,627,776 bytes.
C1_NoExecutionWhenGated ==
    \A r \in Requests :
        (IsRun(r) /\ req[r].query # <<>>) =>
            /\ ReportedMutating(r) => CallCount(r, "query") = 0
            /\ (HasEstimate(r) /\ ~NatLess(req[r].job.estimate, OneTB))
                   => CallCount(r, "query") = 0

C1_Witness ==
    \E r \in Requests :
        /\ IsRun(r) /\ req[r].pc = "returned"
        /\ HasEstimate(r) /\ req[r].job.estimate = OneTB
        /\ CallCount(r, "createQueryJob") = 1
        /\ CallCount(r, "query") = 0

\* the names of the catalog entries whose pattern matches the normalized text
MatchedNames(q) ==
    { dmlPatterns[k].name :
        k \in { n \in 1..Len(dmlPatterns) : Test(dmlPatterns[n].pattern, Normalize(q)) } }

\* C2: when the classifier reports the query as mutating,
\* run_query_with_validation has returned success = false with an error that
\* names a matched construct as soon as it has started, having invoked
\* neither createQueryJob nor query.
C2_MutatingShortCircuit ==
    \A r \in Requests :
        (IsRun(r) /\ req[r].query # <<>> /\ ReportedMutating(r)) =>
            /\ req[r].pc = "returned"
            /\ req[r].payload.success = FALSE
            /\ req[r].payload.error[2] \in MatchedNames(req[r].query)
            /\ req[r].calls = <<>>

C2_Witness ==
    \E r \in Requests :
        /\ IsRun(r) /\ req[r].pc = "returned"
        /\ req[r].dmlCheck.isDML
        /\ req[r].payload.error[2] = "INSERT INTO"

\* the first position of the text that is neither in a comment nor white space
FirstCode(q) ==
    LET code == { i \in 1..Len(q) : i \notin InComment(q) /\ ~IsSpace(q[i]) }
    IN  IF code = {} THEN 0 ELSE CHOOSE i \in code : \A j \in code : i <= j

\* the statement is a SELECT: its first keyword, comments aside, is SELECT
IsSelect(q) ==
    /\ FirstCode(q) # 0
    /\ MatchAt(toUpperCase(q), FirstCode(q), <<<<"S","E","L","E","C","T">>>>) # 0

\* C3: every query that run_query_with_validation hands to bigquery.query
\* is a SELECT whose dry-run estimate is below 1 TB.
C3_OnlySelectsRun ==
    \A r \in Requests :
        (IsRun(r) /\ CallCount(r, "query") > 0) =>
            /\ IsSelect(req[r].query)
            /\ HasEstimate(r) /\ NatLess(req[r].job.estimate, OneTB)

\* C4: in both tools, for every byte count a successful dry run reports,
\* isBelowLimit is true exactly when the count is below 1,099,511,627,776.
C4_ExactThreshold ==
    \A r \in Requests :
        HasEstimate(r) =>
            LET below == NatLess(req[r].job.estimate, OneTB)
            IN  /\ IsDryRun(r) => /\ req[r].payload.success
                                  /\ req[r].payload.isBelowLimit = below
                /\ IsRun(r) => req[r].isBelowLimit = below

C4_Witness ==
    \E r1, r2 \in Requests :
        /\ IsDryRun(r1) /\ HasEstimate(r1) /\ req[r1].job.estimate = OneTB
        /\ req[r1].payload.isBelowLimit = FALSE
        /\ IsRun(r2) /\ HasEstimate(r2)
        /\ req[r2].job.estimate = <<9, 7, 199, 254, 740, 993>>
        /\ req[r2].isBelowLimit = FALSE

\* C5: on both tools an empty query makes the handler throw the
\* InvalidParams McpError (no payload is returned) before the classifier,
\* createQueryJob or query is invoked.
C5_EmptyQueryThrows ==
    \A r \in Requests :
        (Started(r) /\ req[r].query = <<>>) =>
            /\ req[r].pc = "thrown"
            /\ req[r].thrown = InvalidParams
            /\ "payload" \notin DOMAIN req[r]
            /\ ~req[r].classified
            /\ req[r].calls = <<>>

C5_Witness ==
    \E r1, r2 \in Requests :
        /\ IsDryRun(r1) /\ req[r1].pc = "thrown"
        /\ IsRun(r2) /\ req[r2].pc = "thrown"

\* what a rejection carries as its message
FailureMessage(e) == IF e.isError THEN e.message ELSE e.value

\* C6: on a non-empty query, a rejection of createQueryJob (either tool) or
\* of query is returned as {success: false, error} with the rejection's
\* message unchanged, and the handler never throws.
C6_FailuresReturned ==
    \A r \in Requests :
        /\ (Started(r) /\ req[r].query # <<>>) => req[r].pc # "thrown"
        /\ (Started(r) /\ "rejection" \in DOMAIN req[r]) =>
              /\ req[r].pc = "returned"
              /\ req[r].payload = [success |-> FALSE,
                                   error |-> FailureMessage(req[r].rejection)]

C6_Witness ==
    \E r1, r2 \in Requests :
        /\ IsDryRun(r1) /\ "rejection" \in DOMAIN req[r1]
        /\ req[r1].payload.error = "Invalid query syntax"
        /\ IsRun(r2) /\ "rejection" \in DOMAIN req[r2]
        /\ CallCount(r2, "query") = 1

\* the classifier's verdict on each query a caller may send
ClassifierTable == [q \in HandlerQueries |-> containsDMLStatements(q)]

\* C11: dry_run_query, on a non-empty query, also one the classifier reports
\* as mutating, never calls the classifier and never invokes bigquery.query;
\* it invokes createQueryJob once and returns either a report with
\* success = TRUE (isBelowLimit = FALSE when the estimate is over the limit)
\* or a failure payload, never a mutating-statement rejection.
C11_EstimateSkipsClassification ==
    \A r \in Requests :
        (IsDryRun(r) /\ req[r].query # <<>>) =>
            /\ ~req[r].classified
            /\ CallCount(r, "createQueryJob") = 1
            /\ CallCount(r, "query") = 0
            /\ req[r].pc \in {"awaitDryRun", "returned"}
            /\ req[r].pc = "returned" =>
                  IF HasEstimate(r)
                  THEN /\ req[r].payload.success
                       /\ req[r].payload.bytesProcessed = req[r].job.totalBytesProcessed
                       /\ req[r].payload.isBelowLimit
                              = NatLess(req[r].job.estimate, OneTB)
                  ELSE /\ ~req[r].payload.success
                       /\ DOMAIN req[r].payload = {"success", "error"}
                       /\ req[r].payload.error \in
                              { "Invalid query syntax", "Quota exceeded", "socket hang up",
                                "Cannot convert undefined to a BigInt",
                                "Cannot convert string to a BigInt" }

C11_Witness ==
    \E r \in Requests :
        /\ IsDryRun(r) /\ req[r].pc = "returned"
        /\ ClassifierTable[req[r].query].isDML
        /\ HasEstimate(r) /\ req[r].job.estimate = <<1, 99, 511, 627, 777>>
        /\ req[r].payload.success
        /\ ~req[r].payload.isBelowLimit

\* C12: when run_query_with_validation found the query non-mutating, the
\* dry run reported a count below the limit and bigquery.query resolved, the
\* payload is success = TRUE with results the rows bigquery.query returned,
\* in their order, rowCount their number, and bytesProcessed the string the
\* dry run reported.
C12_ExecutedPayload ==
    \A r \in Requests :
        (IsRun(r) /\ "rows" \in DOMAIN req[r]) =>
            /\ req[r].pc = "returned"
            /\ ~req[r].dmlCheck.isDML
            /\ HasEstimate(r) /\ NatLess(req[r].job.estimate, OneTB)
            /\ req[r].payload.success
            /\ req[r].payload.results = req[r].rows
            /\ req[r].payload.rowCount = Cardinality(DOMAIN req[r].rows)
            /\ req[r].payload.bytesProcessed = Str(DecimalString(req[r].job.estimate))

C12_Witness ==
    \E r \in Requests :
        /\ IsRun(r) /\ "rows" \in DOMAIN req[r]
        /\ req[r].job.estimate = <<1, 73, 741, 824>>
        /\ req[r].payload.rowCount = 2
        /\ req[r].payload.results = <<[id |-> 1], [id |-> 2]>>
        /\ req[r].payload.bytesProcessed
              = Str(<<"1","0","7","3","7","4","1","8","2","4">>)

\* C13: no retries.  Within one request createQueryJob is called at most
\* once and bigquery.query at most once; a request whose external call was
\* rejected has returned the failure of that rejection, and from then on
\* neither its calls nor its outcome change.
C13_AtMostOnce ==
    \A r \in Requests :
        Started(r) =>
            /\ CallCount(r, "createQueryJob") <= 1
            /\ CallCount(r, "query") <= 1
            /\ Len(req[r].calls) <= 2
            /\ "rejection" \in DOMAIN req[r] =>
                  /\ req[r].pc = "returned"
                  /\ req[r].payload = [success |-> FALSE,
                                       error |-> FailureMessage(req[r].rejection)]

C13_TerminalStep ==
    \A r \in Requests :
        (Started(r) /\ "rejection" \in DOMAIN req[r]) => req'[r] = req[r]

C13_NoRetries == []C13_AtMostOnce /\ [][C13_TerminalStep]_vars

\* a request whose execution call was rejected after a successful dry run
C13_Witness ==
    \E r \in Requests :
        /\ IsRun(r) /\ "rejection" \in DOMAIN req[r]
        /\ CallCount(r, "createQueryJob") = 1
        /\ CallCount(r, "query") = 1
        /\ req[r].pc = "returned"
        /\ ~req[r].payload.success

\* What one request does when it runs alone, as a function of its inputs
\* (tool, query, projectId, maxResults) and of the responses it has received
\* so far (job, rows, rejection): the calls it has issued ...
AloneCalls(t) ==
    LET override == IF t.projectId \in {Undefined, Str(<<>>)}
                    THEN Undefined ELSE t.projectId
        dry == [api |-> "createQueryJob",
                options |-> [query |-> t.query, dryRun |-> TRUE,
                             projectId |-> override]]
        run == [api |-> "query",
                options |-> [query |-> t.query, projectId |-> override,
                             maxResults |-> t.maxResults]]
    IN  IF t.tool = "dry_run_query" THEN <<dry>>
        ELSE IF ClassifierTable[t.query].isDML THEN <<>>
        ELSE IF "job" \in DOMAIN t /\ t.job.estimate # NoEstimate
                /\ NatLess(t.job.estimate, OneTB)
             THEN <<dry, run>>
             ELSE <<dry>>

\* ... and whether it has returned
AloneReturned(t) ==
    IF t.tool = "dry_run_query" THEN {"job", "rejection"} \cap DOMAIN t # {}
    ELSE \/ ClassifierTable[t.query].isDML
         \/ "rejection" \in DOMAIN t
         \/ "rows" \in DOMAIN t
         \/ "job" \in DOMAIN t /\ (t.job.estimate = NoEstimate
                                   \/ ~NatLess(t.job.estimate, OneTB))

\* ... and the outcome it returns
AloneOutcome(t) ==
    LET conversionError ==
            IF t.job.totalBytesProcessed = Undefined
            THEN "Cannot convert undefined to a BigInt"
            ELSE "Cannot convert string to a BigInt"
    IN  IF t.tool = "run_query_with_validation" /\ ClassifierTable[t.query].isDML
        THEN [success |-> FALSE, error |-> ClassifierTable[t.query].message]
        ELSE IF "rejection" \in DOMAIN t
        THEN [success |-> FALSE, error |-> FailureMessage(t.rejection)]
        ELSE IF t.job.estimate = NoEstimate
        THEN [success |-> FALSE, error |-> conversionError]
        ELSE IF t.tool = "dry_run_query"
        THEN [success |-> TRUE, bytesProcessed |-> t.job.totalBytesProcessed,
              isBelowLimit |-> NatLess(t.job.estimate, OneTB)]
        ELSE IF ~NatLess(t.job.estimate, OneTB)
        THEN [success |-> FALSE, bytesProcessed |-> t.job.totalBytesProcessed,
              error |-> SizeExceeded]
        ELSE [success |-> TRUE, bytesProcessed |-> t.job.totalBytesProcessed,
              rowCount |-> Cardinality(DOMAIN t.rows), results |-> t.rows]

C14_AsIfAlone ==
    \A r \in Requests :
        (Started(r) /\ req[r].query # <<>>) =>
            /\ req[r].calls = AloneCalls(req[r])
            /\ (req[r].pc = "returned") = AloneReturned(req[r])
            /\ req[r].pc = "returned" => req[r].payload = AloneOutcome(req[r])

C14_OwnRecordOnly ==
    /\ \A r, o \in Requests : (req'[r] # req[r] /\ o # r) => req'[o] = req[o]
    /\ UNCHANGED <<query, dmlCheck>>

\* C14: concurrent requests do not interfere.  Under every interleaving of
\* the requests at their awaits, each request's calls and outcome are those
\* it has when run alone with the same inputs and the same responses, and a
\* step of one request changes nothing but that request's own record.
C14_NoInterference == []C14_AsIfAlone /\ [][C14_OwnRecordOnly]_vars

\* two requests in flight together, one of which then gets the failure of a
\* rejected call while the other, past its dry run, is awaiting its rows
C14_Witness ==
    \E r, o \in Requests :
        /\ IsRun(r) /\ req[r].pc = "awaitQuery"
        /\ Started(o) /\ req[o].pc = "returned" /\ "rejection" \in DOMAIN req[o]
        /\ req[o].query # req[r].query
        /\ req[o].projectId # req[r].projectId

\* the step in which request r calls bigquery.query
CallsQuery(r) ==
    /\ req'[r].pc # "idle"
    /\ Cardinality({ i \in 1..Len(req'[r].calls) : req'[r].calls[i].api = "query" })
         > (IF Started(r) THEN CallCount(r, "query") ELSE 0)

C15_QueryStep ==
    \A r \in Requests :
        CallsQuery(r) =>
            \* classification was completed, and reported non-mutating, before
            \* the dry run was awaited
            /\ IsRun(r) /\ req[r].pc = "awaitDryRun"
            /\ req[r].classified /\ req[r].dmlCheck = [isDML |-> FALSE]
            /\ req[r].calls = <<req'[r].calls[1]>>
            /\ req[r].calls[1].api = "createQueryJob"
            \* the step is the dry run's completion with a count under the limit
            /\ "job" \notin DOMAIN req[r] /\ "job" \in DOMAIN req'[r]
            /\ req'[r].job.estimate # NoEstimate
            /\ NatLess(req'[r].job.estimate, OneTB)
            /\ req'[r].calls[2].api = "query"

C15_NoCallWithoutGate ==
    \A r \in Requests :
        IsRun(r) =>
            /\ CallCount(r, "createQueryJob") > 0 =>
                  (req[r].classified /\ ~req[r].dmlCheck.isDML)
            /\ CallCount(r, "query") > 0 =>
                  /\ HasEstimate(r) /\ NatLess(req[r].job.estimate, OneTB)
                  /\ req[r].calls[1].api = "createQueryJob"
            /\ ("job" \notin DOMAIN req[r] \/ ~HasEstimate(r)) =>
                  CallCount(r, "query") = 0

\* C15: within one run_query_with_validation request the stages run in
\* order.  bigquery.query is called only in the step that completes a
\* createQueryJob dry run reporting a byte count below the limit, and that
\* dry run was issued only after the classification reported non-mutating;
\* a request whose dry run failed has no bigquery.query call.
C15_StagesInOrder == []C15_NoCallWithoutGate /\ [][C15_QueryStep]_vars

\* one request has called bigquery.query after a dry run one byte under the
\* limit; another, whose dry run was rejected, has returned without that call
C15_Witness ==
    \E r, o \in Requests :
        /\ IsRun(r) /\ req[r].pc = "awaitQuery" /\ CallCount(r, "query") = 1
        /\ req[r].job.estimate = <<1, 99, 511, 627, 775>>
        /\ IsRun(o) /\ req[o].pc = "returned"
        /\ "rejection" \in DOMAIN req[o] /\ "job" \notin DOMAIN req[o]
        /\ CallCount(o, "createQueryJob") = 1 /\ CallCount(o, "query") = 0

\* the catalog entries whose signature matches the normalized query
Matching(q) ==
    LET normalizedQuery == Normalize(q)
    IN  { k \in 1..Len(dmlPatterns) : Test(dmlPatterns[k].pattern, normalizedQuery) }

\* C16: containsDMLStatements reports the name of the first matching entry
\* in catalog order, whatever the order of the matches in the text, and one
\* name only; when no entry matches it reports isDML = FALSE without a
\* message.  A message is present exactly when isDML is TRUE.
C16_FirstInCatalogOrder ==
    Classified =>
        LET matching == Matching(query)
        IN  /\ dmlCheck.isDML <=> matching # {}
            /\ ("message" \in DOMAIN dmlCheck) <=> dmlCheck.isDML
            /\ dmlCheck.isDML =>
                  LET first == CHOOSE k \in matching : \A m \in matching : k <= m
                  IN  /\ DOMAIN dmlCheck = {"isDML", "message"}
                      /\ dmlCheck.message
                            = <<"DML statement detected: ", dmlPatterns[first].name,
                                ". Only SELECT queries are allowed.">>
            /\ ~dmlCheck.isDML => dmlCheck = [isDML |-> FALSE]

\* "update DROP TABLE": UPDATE comes first in the text, DROP TABLE first in
\* the catalog
C16_Witness ==
    /\ Classified
    /\ query = <<"u","p","d","a","t","e"," ","D","R","O","P"," ","T","A","B","L","E">>
    /\ Cardinality(Matching(query)) = 2
    /\ dmlCheck.message[2] = "DROP TABLE"

\* the project override a caller's projectId argument stands for
Override(projectId) ==
    IF projectId \in {Undefined, Str(<<>>)} THEN Undefined ELSE projectId

\* C17: in run_query_with_validation, createQueryJob and bigquery.query both
\* receive the caller's query text unchanged and the caller's project
\* override; bigquery.query also receives maxResults, the caller's value or
\* 100 when the caller gave none.
C17_OriginalTextSent ==
    \A r \in Requests :
        (IsRun(r) /\ req[r].query # <<>>) =>
            \A i \in 1..Len(req[r].calls) :
                LET call == req[r].calls[i]
                IN  /\ call.options.query = req[r].query
                    /\ call.options.projectId = Override(req[r].projectId)
                    /\ call.api = "createQueryJob" =>
                          /\ call.options.dryRun
                          /\ DOMAIN call.options = {"query", "dryRun", "projectId"}
                    /\ call.api = "query" =>
                          /\ DOMAIN call.options = {"query", "projectId", "maxResults"}
                          /\ call.options.maxResults.value
                                = IF req[r].maxResultsArg = Undefined
                                  THEN 100
                                  ELSE req[r].maxResultsArg.value

\* both calls made for a commented, mixed-case text, with a project override
\* and no maxResults
C17_Witness ==
    \E r \in Requests :
        /\ IsRun(r) /\ Len(req[r].calls) = 2
        /\ req[r].query = <<"/","*","-","-","*","/","D","R","O","P"," ","T","A","B","L","E"," ","t">>
        /\ req[r].calls[2].options.query # Normalize(req[r].query)
        /\ req[r].projectId = Str(<<"m","y","-","p","r","o","j","e","c","t">>)
        /\ req[r].maxResultsArg = Undefined
        /\ req[r].calls[2].options.maxResults.value = 100

\* C19: the size gate fails closed.  When the dry run of
\* run_query_with_validation resolves with a byte count that is missing or
\* that BigInt cannot convert, the request returns success = FALSE with an
\* error and bigquery.query is never called.
C19_FailsClosed ==
    \A r \in Requests :
        (IsRun(r) /\ "job" \in DOMAIN req[r] /\ req[r].job.estimate = NoEstimate) =>
            /\ req[r].pc = "returned"
            /\ DOMAIN req[r].payload = {"success", "error"}
            /\ ~req[r].payload.success
            /\ req[r].payload.error \in { "Cannot convert undefined to a BigInt",
                                          "Cannot convert string to a BigInt" }
            /\ CallCount(r, "query") = 0
            /\ "rows" \notin DOMAIN req[r]

\* one request whose dry run reported no byte count, another whose dry run
\* reported the text "n/a"
C19_Witness ==
    \E r, o \in Requests :
        /\ IsRun(r) /\ "job" \in DOMAIN req[r]
        /\ req[r].job.totalBytesProcessed = Undefined
        /\ IsRun(o) /\ "job" \in DOMAIN req[o]
        /\ req[o].job.totalBytesProcessed = Str(<<"n","/","a">>)
        /\ ~req[r].payload.success /\ ~req[o].payload.success

\* the outcomes the payload of a returned request is an instance of
OutcomeKinds(r) ==
    LET p == req[r].payload
        fields == DOMAIN p
        mutating == IsRun(r) /\ req[r].dmlCheck.isDML
    IN  { k \in {"DryRunReport", "Failed", "RejectedMutating", "RejectedSize", "Executed"} :
            CASE k = "DryRunReport" ->
                    /\ IsDryRun(r) /\ p.success
                    /\ fields = {"success", "bytesProcessed", "isBelowLimit"}
              [] k = "Executed" ->
                    /\ IsRun(r) /\ p.success
                    /\ fields = {"success", "bytesProcessed", "rowCount", "results"}
              [] k = "RejectedSize" ->
                    /\ IsRun(r) /\ ~p.success
                    /\ fields = {"success", "bytesProcessed", "error"}
              [] k = "RejectedMutating" ->
                    /\ mutating /\ ~p.success
                    /\ fields = {"success", "error"}
              [] k = "Failed" ->
                    /\ ~mutating /\ ~p.success
                    /\ fields = {"success", "error"} }

Finished(r) == Started(r) /\ req[r].pc = "returned"

C18_OneOutcome ==
    \A r \in Requests :
        /\ (Started(r) /\ req[r].query # <<>>) => req[r].pc \in {"awaitDryRun", "awaitQuery", "returned"}
        /\ Finished(r) => Cardinality(OutcomeKinds(r)) = 1

C18_OutcomeKept ==
    \A r \in Requests : Finished(r) => req'[r] = req[r]

\* C18: every request with a non-empty query, its awaited calls settling,
\* eventually returns, with a payload that is exactly one of DryRunReport or
\* Failed for dry_run_query and of RejectedMutating, RejectedSize, Executed
\* or Failed for run_query_with_validation; once returned, the outcome is
\* never replaced.
C18_Terminates ==
    /\ []C18_OneOutcome
    /\ [][C18_OutcomeKept]_vars
    /\ \A r \in Requests :
          (Started(r) /\ req[r].query # <<>>) ~> Finished(r)

\* between them the two requests have returned an Executed outcome and the
\* Failed outcome of a rejected bigquery.query call
C18_Witness ==
    \E r, o \in Requests :
        /\ Finished(r) /\ OutcomeKinds(r) = {"Executed"}
        /\ Finished(o) /\ IsRun(o) /\ OutcomeKinds(o) = {"Failed"}
        /\ CallCount(o, "query") = 1

====
